---- MODULE Spec2Model ----
(***************************************************************************)
(* A model of src/sde.py: milstein(drift, diffusion, diffusion_prime, X0,  *)
(* ts, dws), the Milstein integrator of dX = a(X,t) dt + b(X,t) dW.        *)
(*                                                                         *)
(* A call is one action.  The arguments are drawn in Init; the action      *)
(* evaluates the body statement by statement (lines 51..62) and records    *)
(* how the call ended: the exception and the line that raised it, or the   *)
(* returned trajectory, together with the log of the calls made to the     *)
(* three caller-supplied functions.                                        *)
(*                                                                         *)
(* Numbers are exact rationals <<n, d>> (d > 0, lowest terms); <<0, 0>> is *)
(* NaN.  Rounding of binary floating point is not modelled.  The state is  *)
(* a scalar (dimension 1).                                                 *)
(***************************************************************************)
EXTENDS Integers, Sequences, FiniteSets, TLC

\* Longest time grid and increment sequence drawn.
MaxLen == 3
\* Largest time point drawn; time points are 0..MaxT.
MaxT == 4

VARIABLES drift, diffusion, diffusion_prime, X0, ts, dws, numpy, pc, result

args == <<drift, diffusion, diffusion_prime, X0, ts, dws>>
vars == <<drift, diffusion, diffusion_prime, X0, ts, dws, numpy, pc, result>>

----------------------------------------------------------------------------
\* Arithmetic of the Python/numpy numbers the body computes with.

NaN == <<0, 0>>

IsNaN(x) == x[2] = 0

Abs(n) == IF n < 0 THEN -n ELSE n

RECURSIVE GCD(_, _)
GCD(a, b) == IF b = 0 THEN a ELSE GCD(b, a % b)

Norm(n, d) ==
    IF d = 0 THEN NaN
    ELSE LET g == GCD(Abs(n), Abs(d))
             s == IF d < 0 THEN -1 ELSE 1
         IN  <<(s * n) \div g, (s * d) \div g>>

Rat(n) == <<n, 1>>

Half == <<1, 2>>

FAdd(x, y) ==
    IF IsNaN(x) \/ IsNaN(y) THEN NaN
    ELSE Norm(x[1] * y[2] + y[1] * x[2], x[2] * y[2])

FSub(x, y) ==
    IF IsNaN(x) \/ IsNaN(y) THEN NaN
    ELSE Norm(x[1] * y[2] - y[1] * x[2], x[2] * y[2])

FMul(x, y) ==
    IF IsNaN(x) \/ IsNaN(y) THEN NaN
    ELSE Norm(x[1] * y[1], x[2] * y[2])

FNeg(x) == x[2] # 0 /\ x[1] < 0

IsSquare(n) == \E r \in 0..n : r * r = n

ISqrt(n) == CHOOSE r \in 0..n : r * r = n

\* np.sqrt of one entry: NaN (and a warning, no exception) below zero.
FSqrt(x) ==
    IF IsNaN(x) \/ x[1] < 0 THEN NaN
    ELSE <<ISqrt(x[1]), ISqrt(x[2])>>

----------------------------------------------------------------------------
\* The caller-supplied functions, by name.  Each maps (X, t) to a number or
\* raises.  "guarded" raises ValueError on a negative state.

Fails(f, x, t) == f = "guarded" /\ FNeg(x)

Apply(f, x, t) ==
    CASE f = "zero"    -> Rat(0)
      [] f = "three"   -> Rat(3)
      [] f = "fifth"   -> <<1, 5>>
      [] f = "lin20"   -> FMul(<<1, 20>>, x)
      [] f = "lin5"    -> FMul(<<1, 5>>, x)
      [] f = "time"    -> Rat(t)
      [] f = "guarded" -> Rat(1)

\* The (drift, diffusion, diffusion_prime) triples drawn.
Models ==
    { <<"lin20", "lin5", "fifth">>,
      <<"zero", "three", "zero">>,
      <<"zero", "lin5", "fifth">>,
      <<"time", "zero", "zero">>,
      <<"guarded", "lin5", "fifth">>,
      <<"zero", "three", "guarded">> }

InitialStates == {100, -1}

Increments == {0, 1}

SeqsUpTo(S, n) == UNION { [1..k -> S] : k \in 0..n }

\* np.sqrt is exact here, so the grids drawn are those whose positive steps
\* are perfect squares; zero and negative steps are drawn too.
Grids ==
    { g \in SeqsUpTo(0..MaxT, MaxLen) :
        \A i \in 1..(Len(g) - 1) :
            g[i + 1] - g[i] > 0 => IsSquare(g[i + 1] - g[i]) }

\* What the installed numpy does at line 54: "legacy" builds an object array
\* from rows of different length, "strict" raises ValueError for them, and
\* "noproduct" has no np.product at all.
Builds == {"legacy", "strict", "noproduct"}

----------------------------------------------------------------------------
\* Name resolution inside milstein.

Params == {"drift", "diffusion", "diffusion_prime", "X0", "ts", "dws"}

\* The names the body assigns: with the parameters, the function's locals.
Assigned == {"t", "dts", "sqrtdts", "dWs", "X", "dt", "dW"}

Locals == Params \cup Assigned

Globals == {"np", "milstein"}

\* The two reads spelled with the names that are bound where they run: the
\* parameter ts and the local sqrtdts.
IdentAtBound == [l51 |-> "ts", l54 |-> "sqrtdts"]

\* The identifiers the body reads: the sequence sliced at line 51 and the
\* first row of the array built at line 54.
IdentAt == [l51 |-> "t", l54 |-> "sqrtdt"]

\* The exception reading `name` raises when `bound` are the locals assigned
\* so far; "" when the read succeeds.
LoadError(name, bound) ==
    IF name \in Locals
    THEN IF name \in bound THEN "" ELSE "UnboundLocalError"
    ELSE IF name \in Globals THEN "" ELSE "NameError"

----------------------------------------------------------------------------
\* The body of milstein.

Raise(exc, line, calls) ==
    [kind |-> "raised", exc |-> exc, line |-> line, X |-> <<>>, calls |-> calls]

Return(X, calls) ==
    [kind |-> "returned", exc |-> "", line |-> 62, X |-> X, calls |-> calls]

Min(a, b) == IF a < b THEN a ELSE b

\* [tf - ti for tf, ti in zip(T[1:], T[:-1])]
Diffs(T) == [i \in 1..(IF Len(T) = 0 THEN 0 ELSE Len(T) - 1) |-> Rat(T[i + 1] - T[i])]

\* The length numpy broadcasts two rows of lengths k and m to; -1 if it cannot.
BroadcastLen(k, m) ==
    IF k = m THEN k
    ELSE IF k = 1 THEN m
    ELSE IF m = 1 THEN k
    ELSE -1

\* np.product(np.array([S, D]), axis=0), S and D sequences of numbers.
Product(S, D) ==
    LET n == BroadcastLen(Len(S), Len(D))
    IN  [i \in 1..n |-> FMul(S[IF Len(S) = 1 THEN 1 ELSE i],
                             Rat(D[IF Len(D) = 1 THEN 1 ELSE i]))]

\* X[-1] + drift*dt + diffusion*(dW + 0.5*diffusion_prime*(dW**2 - dt))
Update(x, a, b, bp, dt, dW) ==
    FAdd(FAdd(x, FMul(a, dt)),
         FMul(b, FAdd(dW, FMul(FMul(Half, bp), FSub(FMul(dW, dW), dt)))))

Call(f, x, t) == <<f, x, t>>

\* The for loop: step i of `steps`, X the trajectory so far.
RECURSIVE Loop(_, _, _, _, _, _, _)
Loop(a, i, steps, dts, dWs, X, calls) ==
    IF i > steps THEN Return(X, calls)
    ELSE
      LET x  == X[Len(X)]
          t  == a.ts[i]
          c1 == Append(calls, Call("drift", x, t))
          c2 == Append(c1, Call("diffusion", x, t))
          c3 == Append(c2, Call("diffusion_prime", x, t))
      IN  IF Fails(a.drift, x, t) THEN Raise("ValueError", 59, c1)
          ELSE IF Fails(a.diffusion, x, t) THEN Raise("ValueError", 59, c2)
          ELSE IF Fails(a.diffusion_prime, x, t) THEN Raise("ValueError", 60, c3)
          ELSE Loop(a, i + 1, steps, dts, dWs,
                    Append(X, Update(x, Apply(a.drift, x, t),
                                        Apply(a.diffusion, x, t),
                                        Apply(a.diffusion_prime, x, t),
                                        dts[i], dWs[i])),
                    c3)

\* Lines 56..62, once dts and dWs are computed.
Integrate(a, dts, dWs) ==
    LET steps == Min(IF Len(a.ts) = 0 THEN 0 ELSE Len(a.ts) - 1,
                     Min(Len(dts), Len(dWs)))
    IN  Loop(a, 1, steps, dts, dWs, <<Rat(a.X0)>>, <<>>)

\* Lines 53..54, once dts is computed.
Scale(a, fr, dts) ==
    LET sqrtdts == [i \in DOMAIN dts |-> FSqrt(dts[i])]
        fr1     == [n \in DOMAIN fr \cup {"sqrtdts"} |->
                       IF n = "sqrtdts" THEN sqrtdts ELSE fr[n]]
        bound   == Params \cup {"dts", "sqrtdts"}
        e54     == LoadError(IdentAt.l54, bound)
    IN  IF a.numpy = "noproduct" THEN Raise("AttributeError", 54, <<>>)
        ELSE IF e54 # "" THEN Raise(e54, 54, <<>>)
        ELSE LET S == fr1[IdentAt.l54]
                 D == a.dws
             IN  IF Len(S) # Len(D) /\ a.numpy = "strict"
                 THEN Raise("ValueError", 54, <<>>)
                 ELSE IF BroadcastLen(Len(S), Len(D)) < 0
                 THEN Raise("ValueError", 54, <<>>)
                 ELSE Integrate(a, dts, Product(S, D))

milstein(a) ==
    LET fr  == [n \in {"ts"} |-> a.ts]
        e51 == LoadError(IdentAt.l51, Params)
    IN  IF e51 # "" THEN Raise(e51, 51, <<>>)
        ELSE Scale(a, fr, Diffs(fr[IdentAt.l51]))

----------------------------------------------------------------------------
\* The state machine: the arguments of one call, then the call.

NoResult == [kind |-> "none", exc |-> "", line |-> 0, X |-> <<>>, calls |-> <<>>]

Init ==
    /\ \E m \in Models :
          /\ drift = m[1]
          /\ diffusion = m[2]
          /\ diffusion_prime = m[3]
    /\ X0 \in InitialStates
    /\ ts \in Grids
    /\ dws \in SeqsUpTo(Increments, MaxLen)
    /\ numpy \in Builds
    /\ pc = "call"
    /\ result = NoResult

milsteinCall ==
    /\ pc = "call"
    /\ pc' = "done"
    /\ result' = milstein([drift |-> drift, diffusion |-> diffusion,
                           diffusion_prime |-> diffusion_prime,
                           X0 |-> X0, ts |-> ts, dws |-> dws, numpy |-> numpy])
    /\ UNCHANGED <<drift, diffusion, diffusion_prime, X0, ts, dws, numpy>>

Next == milsteinCall

Spec == Init /\ [][Next]_vars

----------------------------------------------------------------------------
\* The inputs the claims speak of.

Done == pc = "done"

Increasing == \A i \in 1..(Len(ts) - 1) : ts[i] < ts[i + 1]

ShapeOK == Len(dws) = Len(ts) - 1

TotalFns == "guarded" \notin {drift, diffusion, diffusion_prime}

Valid == Len(ts) >= 2 /\ Increasing /\ ShapeOK /\ TotalFns

Returned == result.kind = "returned"

Raised == result.kind = "raised"

Dt(i) == Rat(ts[i + 1] - ts[i])

\* The scaled increment of step i: dws[i] * sqrt(ts[i+1] - ts[i]).
ScaledIncrement(i) == FMul(Rat(dws[i]), FSqrt(Dt(i)))

----------------------------------------------------------------------------
\* C1: a call on valid inputs returns a trajectory of exactly len(ts)
\* entries whose entry 0 is X0.
C1_LengthAndFirstEntry ==
    (Done /\ Valid) =>
        /\ Returned
        /\ Len(result.X) = Len(ts)
        /\ result.X[1] = Rat(X0)

\* C2: on valid inputs every step obeys
\* X[i+1] = X[i] + a*dt + b*(dW + 0.5*b'*(dW^2 - dt)) with a, b, b' taken at
\* (X[i], ts[i]); drift 0.05*X, diffusion 0.2*X, diffusion_prime 0.2,
\* X0 = 100, ts = [0, 1], dws = [0] gives X[1] = 103.
C2_MilsteinRecurrence ==
    (Done /\ Valid) =>
        /\ Returned
        /\ Len(result.X) = Len(ts)
        /\ \A i \in 1..(Len(ts) - 1) :
              LET x  == result.X[i]
                  a  == Apply(drift, x, ts[i])
                  b  == Apply(diffusion, x, ts[i])
                  bp == Apply(diffusion_prime, x, ts[i])
                  dW == ScaledIncrement(i)
              IN  result.X[i + 1] =
                      FAdd(FAdd(x, FMul(a, Dt(i))),
                           FMul(b, FAdd(dW, FMul(FMul(Half, bp),
                                                 FSub(FMul(dW, dW), Dt(i))))))
        /\ (/\ args = <<"lin20", "lin5", "fifth", 100, <<0, 1>>, <<0>> >>)
              => result.X[2] = Rat(103)

\* C3: each raw increment is scaled by the square root of its own step of
\* ts, on non-uniform grids too: with drift 0, constant diffusion c and
\* diffusion_prime 0 every step adds c * dws[i] * sqrt(ts[i+1] - ts[i]), so
\* one step with dt = 4 and dws = [1] returns X0 + 2c.
C3_IncrementScaling ==
    (Done /\ Valid /\ drift = "zero" /\ diffusion = "three"
          /\ diffusion_prime = "zero") =>
        /\ Returned
        /\ Len(result.X) = Len(ts)
        /\ \A i \in 1..(Len(ts) - 1) :
              result.X[i + 1] =
                  FAdd(result.X[i], FMul(Rat(3), ScaledIncrement(i)))
        /\ (Len(ts) = 2 /\ ts[2] - ts[1] = 4 /\ dws = <<1>>)
              => result.X[2] = Rat(X0 + 2 * 3)

\* C4: with zero drift and all-zero dws, on a valid grid every entry of the
\* returned trajectory equals X0.
C4_ZeroDriftZeroIncrement ==
    (Done /\ Valid /\ drift = "zero" /\ \A i \in DOMAIN dws : dws[i] = 0) =>
        /\ Returned
        /\ Len(result.X) = Len(ts)
        /\ \A i \in DOMAIN result.X : result.X[i] = Rat(X0)

\* C5: a call whose dws length differs from len(ts) - 1 ends in an error
\* with no trajectory produced and no user function invoked.
C5_ShapeMismatchRaises ==
    (Done /\ ~ShapeOK) =>
        /\ Raised
        /\ result.X = <<>>
        /\ result.calls = <<>>

\* A call with len(dws) = len(ts) = 2 has ended in an exception.
C5_Witness ==
    /\ Done
    /\ Len(ts) = 2
    /\ Len(dws) = 2
    /\ Raised

\* C6: a call whose ts is not strictly increasing ends in an error; it
\* returns no trajectory.
C6_NonMonotonicRaises ==
    (Done /\ ~Increasing) =>
        /\ Raised
        /\ result.X = <<>>

\* A call on the grid [0, 4, 1], with two increments, has ended in an
\* exception.
C6_Witness ==
    /\ Done
    /\ ts = <<0, 4, 1>>
    /\ Len(dws) = 2
    /\ Raised

\* C7: with diffusion and diffusion_prime constantly zero, a valid call
\* returns the explicit Euler trajectory
\* X[i+1] = X[i] + drift(X[i], ts[i]) * (ts[i+1] - ts[i]), whatever dws is.
C7_ZeroDiffusionIsEuler ==
    (Done /\ Valid /\ diffusion = "zero" /\ diffusion_prime = "zero") =>
        /\ Returned
        /\ Len(result.X) = Len(ts)
        /\ \A i \in 1..(Len(ts) - 1) :
              result.X[i + 1] =
                  FAdd(result.X[i],
                       FMul(Apply(drift, result.X[i], ts[i]), Dt(i)))

\* Some user function raises at (X0, ts[0]), the pair of step 0.
FailsAtFirstStep ==
    /\ Len(ts) >= 2
    /\ Increasing
    /\ ShapeOK
    /\ \E f \in {drift, diffusion, diffusion_prime} : Fails(f, Rat(X0), ts[1])

C10_CallsFollowTrajectory ==
    (Done /\ Valid) =>
        /\ Returned
        /\ Len(result.X) = Len(ts)
        /\ Len(result.calls) = 3 * (Len(ts) - 1)
        /\ \A i \in 1..(Len(ts) - 1) :
              /\ result.calls[3 * i - 2] = <<"drift", result.X[i], ts[i]>>
              /\ result.calls[3 * i - 1] = <<"diffusion", result.X[i], ts[i]>>
              /\ result.calls[3 * i] = <<"diffusion_prime", result.X[i], ts[i]>>

====
